---- MODULE Spec2Model ----
(***************************************************************************)
(* Model of djangobot/slack.py: the SlackAPI client.                       *)
(*                                                                         *)
(* The client holds a token, the `verify` flag and two caches (_channels,  *)
(* _users).  The remote side is an input: every network call draws its     *)
(* outcome (transport error, or a parsed response) from a small set.       *)
(***************************************************************************)
EXTENDS Naturals, Sequences, FiniteSets

(* ---------------------------------------------------------------------- *)
(* Bounds                                                                  *)
(* ---------------------------------------------------------------------- *)
MaxChannels == 2
MaxUsers == 2

(* ---------------------------------------------------------------------- *)
(* Values                                                                  *)
(* ---------------------------------------------------------------------- *)
ChannelUniverse ==
    { [id |-> "C1", name |-> "general"],
      [id |-> "C1", name |-> "random"] }

UserUniverse ==
    { [id |-> "U1", name |-> "alice"],
      [id |-> "U1", name |-> "bob"] }

ChannelNames == {"general", "random", "missing"}
ChannelIds == {"C1", "C9"}
UserIds == {"U1", "U9"}

SeqsUpTo(S, n) == UNION { [1..k -> S] : k \in 0..n }

ChannelLists == SeqsUpTo(ChannelUniverse, MaxChannels)
UserLists == SeqsUpTo(UserUniverse, MaxUsers)

\* Python values held by a cache attribute: None or a list.
NoneVal == [none |-> TRUE, items |-> <<>>]
ListVal(l) == [none |-> FALSE, items |-> l]

\* A variant of Truthy: the emptiness test written as `== []`, which takes
\* None for a populated cache.
TruthyUnlessEmptyList(v) == v.none \/ Len(v.items) > 0

\* Python truthiness of a cache value: None and [] are both falsy.
Truthy(v) == ~v.none /\ Len(v.items) > 0

\* Token argument / environment variable.
NoToken == "<None>"
EnvUnset == "<unset>"
TokenArgs == {NoToken, "", "xoxb-arg"}
EnvValues == {EnvUnset, "", "xoxb-env"}

\* Python truthiness of the token argument: None and '' are falsy.
TokenTruthy(t) == t # NoToken /\ t # ""

(* ---------------------------------------------------------------------- *)
(* The remote side: outcome of one HTTP request followed by .json()        *)
(* ---------------------------------------------------------------------- *)
TransportFail == [transport |-> TRUE, ok |-> FALSE, has |-> FALSE, items |-> <<>>]
Resp(ok, has, items) == [transport |-> FALSE, ok |-> ok, has |-> has, items |-> items]

\* A response to a method that carries no collection (auth.test, rtm.start, ...).
PlainOutcomes == {TransportFail, Resp(TRUE, FALSE, <<>>), Resp(FALSE, FALSE, <<>>)}

\* A response to channels.list / users.list: a failure-flagged response
\* carries no collection, a success-flagged one carries the list.
ListOutcomes(lists) ==
    {TransportFail, Resp(FALSE, FALSE, <<>>)} \cup { Resp(TRUE, TRUE, l) : l \in lists }

ChannelOutcomes == ListOutcomes(ChannelLists)
UserOutcomes == ListOutcomes(UserLists)

\* Truthiness of a parsed response: a mapping holding at least the 'ok' key.
RespTruthy(r) == TRUE

(* ---------------------------------------------------------------------- *)
(* Return values                                                           *)
(* ---------------------------------------------------------------------- *)
RetNone == [kind |-> "none", val |-> <<>>]
RetList(l) == [kind |-> "list", val |-> l]
RetElem(e) == [kind |-> "elem", val |-> <<e>>]
RetResp(r) == [kind |-> "resp", val |-> <<r>>]
RetOf(v) == IF v.none THEN RetNone ELSE RetList(v.items)

\* One entry of the log of network exchanges: the request and what came back.
Call(method, http, out) == [method |-> method, http |-> http, out |-> out]

(* ---------------------------------------------------------------------- *)
(* Low-level dispatch                                                      *)
(* ---------------------------------------------------------------------- *)
\* A variant of _api_call: the success flag is enforced whatever self.verify is.
_api_call_always_verify(method, request_method, verify, out) ==
    LET c == <<Call(method, request_method, out)>> IN
    IF out.transport
    THEN [status |-> "TransportError", resp |-> out, calls |-> c]
    ELSE IF ~out.ok
         THEN [status |-> "APIError", resp |-> out, calls |-> c]
         ELSE [status |-> "ok", resp |-> out, calls |-> c]

_api_call(method, request_method, verify, out) ==
    LET c == <<Call(method, request_method, out)>> IN
    IF out.transport
    THEN [status |-> "TransportError", resp |-> out, calls |-> c]
    ELSE IF verify /\ ~out.ok
         THEN [status |-> "APIError", resp |-> out, calls |-> c]
         ELSE [status |-> "ok", resp |-> out, calls |-> c]

_call_api(method, verify, out) == _api_call(method, "get", verify, out)

_post_api(method, verify, out) == _api_call(method, "post", verify, out)

(* ---------------------------------------------------------------------- *)
(* Cached collection accessors                                             *)
(* A result is [status, ret, calls, cache]: cache is the attribute after   *)
(* the access.                                                             *)
(* ---------------------------------------------------------------------- *)
\* A variant of CachedGet: a failed fetch is swallowed and an empty list is
\* stored and returned.
CachedGetSwallow(cache, method, verify, out) ==
    IF Truthy(cache)
    THEN [status |-> "ok", ret |-> RetOf(cache), calls |-> <<>>, cache |-> cache]
    ELSE LET r == _call_api(method, verify, out) IN
         IF r.status # "ok" \/ ~r.resp.has
         THEN [status |-> "ok", ret |-> RetList(<<>>), calls |-> r.calls,
               cache |-> ListVal(<<>>)]
         ELSE [status |-> "ok", ret |-> RetList(r.resp.items), calls |-> r.calls,
               cache |-> ListVal(r.resp.items)]

CachedGet(cache, method, verify, out) ==
    IF Truthy(cache)
    THEN [status |-> "ok", ret |-> RetOf(cache), calls |-> <<>>, cache |-> cache]
    ELSE LET r == _call_api(method, verify, out) IN
         IF r.status # "ok"
         THEN [status |-> r.status, ret |-> RetNone, calls |-> r.calls, cache |-> cache]
         ELSE IF ~r.resp.has
              THEN [status |-> "KeyError", ret |-> RetNone, calls |-> r.calls,
                    cache |-> cache]
              ELSE [status |-> "ok", ret |-> RetList(r.resp.items), calls |-> r.calls,
                    cache |-> ListVal(r.resp.items)]

channels(cache, verify, out) == CachedGet(cache, "channels.list", verify, out)

users(cache, verify, out) == CachedGet(cache, "users.list", verify, out)

(* ---------------------------------------------------------------------- *)
(* API methods                                                             *)
(* ---------------------------------------------------------------------- *)
\* A variant of auth_test: `or` in place of `and`, so the GET response is
\* returned and the POST call is never issued.
auth_test_or(verify, g, p) ==
    LET r1 == _call_api("auth.test", verify, g) IN
    IF r1.status # "ok"
    THEN [status |-> r1.status, ret |-> RetNone, calls |-> r1.calls]
    ELSE [status |-> "ok", ret |-> RetResp(r1.resp), calls |-> r1.calls]

\* return self._call_api('auth.test') and self._post_api('auth.test')
auth_test(verify, g, p) ==
    LET r1 == _call_api("auth.test", verify, g) IN
    IF r1.status # "ok"
    THEN [status |-> r1.status, ret |-> RetNone, calls |-> r1.calls]
    ELSE IF ~RespTruthy(r1.resp)
         THEN [status |-> "ok", ret |-> RetResp(r1.resp), calls |-> r1.calls]
         ELSE LET r2 == _post_api("auth.test", verify, p) IN
              IF r2.status # "ok"
              THEN [status |-> r2.status, ret |-> RetNone, calls |-> r1.calls \o r2.calls]
              ELSE [status |-> "ok", ret |-> RetResp(r2.resp),
                    calls |-> r1.calls \o r2.calls]

rtm_start(verify, out) ==
    LET r == _call_api("rtm.start", verify, out) IN
    IF r.status # "ok"
    THEN [status |-> r.status, ret |-> RetNone, calls |-> r.calls]
    ELSE [status |-> "ok", ret |-> RetResp(r.resp), calls |-> r.calls]

chat_post_message(verify, out) ==
    LET r == _post_api("chat.postMessage", verify, out) IN
    [status |-> r.status, ret |-> RetNone, calls |-> r.calls]

(* ---------------------------------------------------------------------- *)
(* Translation helpers                                                     *)
(* ---------------------------------------------------------------------- *)
Field(e, f) == IF f = "name" THEN e.name ELSE e.id

\* A variant of FirstMatch: index [-1] in place of [0].
LastMatch(acc, f, key) ==
    IF acc.status # "ok"
    THEN acc
    ELSE LET Match(e) == Field(e, f) = key
             m == SelectSeq(acc.ret.val, Match)
         IN  IF Len(m) = 0
             THEN [acc EXCEPT !.status = "NotFoundError", !.ret = RetNone]
             ELSE [acc EXCEPT !.ret = RetElem(m[Len(m)])]

\* [x for x in <collection> if x[f] == key][0], IndexError -> ValueError
FirstMatch(acc, f, key) ==
    IF acc.status # "ok"
    THEN acc
    ELSE LET Match(e) == Field(e, f) = key
             m == SelectSeq(acc.ret.val, Match)
         IN  IF Len(m) = 0
             THEN [acc EXCEPT !.status = "NotFoundError", !.ret = RetNone]
             ELSE [acc EXCEPT !.ret = RetElem(m[1])]

channel_from_name(cache, verify, out, name) ==
    FirstMatch(channels(cache, verify, out), "name", name)

user_from_id(cache, verify, out, user_id) ==
    FirstMatch(users(cache, verify, out), "id", user_id)

channel_from_id(cache, verify, out, channel_id) ==
    FirstMatch(channels(cache, verify, out), "id", channel_id)

reload_channels(cache) == NoneVal

(* ---------------------------------------------------------------------- *)
(* Construction                                                            *)
(* ---------------------------------------------------------------------- *)
\* token if token else os.environ['SLACK_TOKEN']; KeyError -> ValueError
ResolveToken(tokenArg, env) ==
    IF TokenTruthy(tokenArg)
    THEN [status |-> "ok", token |-> tokenArg]
    ELSE IF env = EnvUnset
         THEN [status |-> "ConfigurationError", token |-> NoToken]
         ELSE [status |-> "ok", token |-> env]

Failed(status, calls) ==
    [status |-> status, token |-> NoToken, verify |-> FALSE,
     ch |-> NoneVal, us |-> NoneVal, calls |-> calls]

\* A variant of Populate: self.channels is read once more after self.users.
PopulateRefetch(tok, verify, co, uo, calls) ==
    LET c == channels(ListVal(<<>>), verify, co) IN
    IF c.status # "ok"
    THEN Failed(c.status, calls \o c.calls)
    ELSE LET u == users(ListVal(<<>>), verify, uo) IN
         IF u.status # "ok"
         THEN Failed(u.status, calls \o c.calls \o u.calls)
         ELSE LET c2 == channels(c.cache, verify, co) IN
              [status |-> "ok", token |-> tok, verify |-> verify,
               ch |-> c2.cache, us |-> u.cache,
               calls |-> calls \o c.calls \o u.calls \o c2.calls]

\* Eager population at the end of __init__ (lazy = False).
Populate(tok, verify, co, uo, calls) ==
    LET c == channels(ListVal(<<>>), verify, co) IN
    IF c.status # "ok"
    THEN Failed(c.status, calls \o c.calls)
    ELSE LET u == users(ListVal(<<>>), verify, uo) IN
         IF u.status # "ok"
         THEN Failed(u.status, calls \o c.calls \o u.calls)
         ELSE [status |-> "ok", token |-> tok, verify |-> verify,
               ch |-> c.cache, us |-> u.cache,
               calls |-> calls \o c.calls \o u.calls]

AfterAuth(tok, verify, lazy, co, uo, calls) ==
    IF lazy
    THEN [status |-> "ok", token |-> tok, verify |-> verify,
          ch |-> ListVal(<<>>), us |-> ListVal(<<>>), calls |-> calls]
    ELSE Populate(tok, verify, co, uo, calls)

__init__(tokenArg, env, authTest, verify, lazy, g, p, co, uo) ==
    LET t == ResolveToken(tokenArg, env) IN
    IF t.status # "ok"
    THEN Failed(t.status, <<>>)
    ELSE IF authTest
         THEN LET a == auth_test(verify, g, p) IN
              IF a.status # "ok"
              THEN Failed(a.status, a.calls)
              ELSE IF ~a.ret.val[1].ok
                   THEN Failed("AuthenticationError", a.calls)
                   ELSE AfterAuth(t.token, verify, lazy, co, uo, a.calls)
         ELSE AfterAuth(t.token, verify, lazy, co, uo, <<>>)

(* ---------------------------------------------------------------------- *)
(* State                                                                   *)
(* ---------------------------------------------------------------------- *)
VARIABLES
    phase,       \* "new" | "ready" (instance exists) | "failed" (constructor raised)
    token,       \* self.token
    verify,      \* self.verify
    _channels,   \* self._channels
    _users,      \* self._users
    lastOp,      \* the operation that ran last, with its arguments
    lastStatus,  \* "ok" or the error it raised
    lastRet,     \* the value it returned
    lastCalls,   \* the network calls it issued, in order, with their outcomes
    usersLoaded, \* history: some users.list fetch has succeeded on this client
    pc,          \* per thread: where it stands inside channels()
    fetched,     \* per thread: the list its pending fetch returned
    didFetch,    \* per thread: its current or last channels() issued a fetch
    tret,        \* per thread: outcome of its last channels()
    acted,       \* the threads that have used the client
    dupFetch     \* a fetch was issued while another thread's fetch was pending

seqVars == <<lastOp, lastStatus, lastRet, lastCalls, usersLoaded>>
thrVars == <<pc, fetched, didFetch, tret, acted, dupFetch>>
vars == <<phase, token, verify, _channels, _users, seqVars, thrVars>>

Threads == {1, 2}
NoResult == [status |-> "none", ret |-> RetNone]

Op(name, args) == [name |-> name, args |-> args]

\* The errors a cache fill can end with.
FetchErrors == {"APIError", "TransportError", "KeyError"}

\* The access filled the cache from the remote.
Loaded(r) == Len(r.calls) > 0 /\ r.status \notin FetchErrors

\* The remote is consulted only when an access misses the cache.
Remote(cache, outcomes) == IF Truthy(cache) THEN {TransportFail} ELSE outcomes

Init ==
    /\ phase = "new"
    /\ token = NoToken
    /\ verify = FALSE
    /\ _channels = NoneVal
    /\ _users = NoneVal
    /\ lastOp = Op("none", <<>>)
    /\ lastStatus = "ok"
    /\ lastRet = RetNone
    /\ lastCalls = <<>>
    /\ usersLoaded = FALSE
    /\ pc = [t \in Threads |-> "idle"]
    /\ fetched = [t \in Threads |-> <<>>]
    /\ didFetch = [t \in Threads |-> FALSE]
    /\ tret = [t \in Threads |-> NoResult]
    /\ acted = {}
    /\ dupFetch = FALSE

Construct ==
    /\ phase = "new"
    /\ \E tokenArg \in TokenArgs, env \in EnvValues,
          authTest \in BOOLEAN, vfy \in BOOLEAN, lazy \in BOOLEAN,
          g \in PlainOutcomes, p \in PlainOutcomes,
          co \in ChannelOutcomes, uo \in UserOutcomes :
          LET r == __init__(tokenArg, env, authTest, vfy, lazy, g, p, co, uo) IN
          /\ phase' = IF r.status = "ok" THEN "ready" ELSE "failed"
          /\ token' = r.token
          /\ verify' = r.verify
          /\ _channels' = r.ch
          /\ _users' = r.us
          /\ lastOp' = Op("__init__", <<tokenArg, env, authTest, vfy, lazy>>)
          /\ lastStatus' = r.status
          /\ lastRet' = RetNone
          /\ lastCalls' = r.calls
          /\ usersLoaded' = (r.status = "ok" /\ ~lazy)
    /\ UNCHANGED thrVars

Channels ==
    /\ phase = "ready"
    /\ \E out \in Remote(_channels, ChannelOutcomes) :
          LET r == channels(_channels, verify, out) IN
          /\ _channels' = r.cache
          /\ lastOp' = Op("channels", <<>>)
          /\ lastStatus' = r.status
          /\ lastRet' = r.ret
          /\ lastCalls' = r.calls
    /\ UNCHANGED <<phase, token, verify, _users, usersLoaded, thrVars>>

Users ==
    /\ phase = "ready"
    /\ \E out \in Remote(_users, UserOutcomes) :
          LET r == users(_users, verify, out) IN
          /\ _users' = r.cache
          /\ lastOp' = Op("users", <<>>)
          /\ lastStatus' = r.status
          /\ lastRet' = r.ret
          /\ lastCalls' = r.calls
          /\ usersLoaded' = (usersLoaded \/ Loaded(r))
    /\ UNCHANGED <<phase, token, verify, _channels, thrVars>>

AuthTest ==
    /\ phase = "ready"
    /\ \E g \in PlainOutcomes, p \in PlainOutcomes :
          LET r == auth_test(verify, g, p) IN
          /\ lastOp' = Op("auth_test", <<>>)
          /\ lastStatus' = r.status
          /\ lastRet' = r.ret
          /\ lastCalls' = r.calls
    /\ UNCHANGED <<phase, token, verify, _channels, _users, usersLoaded, thrVars>>

RtmStart ==
    /\ phase = "ready"
    /\ \E out \in PlainOutcomes :
          LET r == rtm_start(verify, out) IN
          /\ lastOp' = Op("rtm_start", <<>>)
          /\ lastStatus' = r.status
          /\ lastRet' = r.ret
          /\ lastCalls' = r.calls
    /\ UNCHANGED <<phase, token, verify, _channels, _users, usersLoaded, thrVars>>

ChatPostMessage ==
    /\ phase = "ready"
    /\ \E out \in PlainOutcomes :
          LET r == chat_post_message(verify, out) IN
          /\ lastOp' = Op("chat_post_message", <<>>)
          /\ lastStatus' = r.status
          /\ lastRet' = r.ret
          /\ lastCalls' = r.calls
    /\ UNCHANGED <<phase, token, verify, _channels, _users, usersLoaded, thrVars>>

\* A direct use of the low-level GET dispatch.
CallApi ==
    /\ phase = "ready"
    /\ \E out \in PlainOutcomes :
          LET r == _call_api("api.test", verify, out) IN
          /\ lastOp' = Op("_call_api", <<>>)
          /\ lastStatus' = r.status
          /\ lastRet' = IF r.status = "ok" THEN RetResp(r.resp) ELSE RetNone
          /\ lastCalls' = r.calls
    /\ UNCHANGED <<phase, token, verify, _channels, _users, usersLoaded, thrVars>>

\* A direct use of the low-level POST dispatch.
PostApi ==
    /\ phase = "ready"
    /\ \E out \in PlainOutcomes :
          LET r == _post_api("api.test", verify, out) IN
          /\ lastOp' = Op("_post_api", <<>>)
          /\ lastStatus' = r.status
          /\ lastRet' = IF r.status = "ok" THEN RetResp(r.resp) ELSE RetNone
          /\ lastCalls' = r.calls
    /\ UNCHANGED <<phase, token, verify, _channels, _users, usersLoaded, thrVars>>

ChannelFromName ==
    /\ phase = "ready"
    /\ \E out \in Remote(_channels, ChannelOutcomes), name \in ChannelNames :
          LET r == channel_from_name(_channels, verify, out, name) IN
          /\ _channels' = r.cache
          /\ lastOp' = Op("channel_from_name", <<name>>)
          /\ lastStatus' = r.status
          /\ lastRet' = r.ret
          /\ lastCalls' = r.calls
    /\ UNCHANGED <<phase, token, verify, _users, usersLoaded, thrVars>>

UserFromId ==
    /\ phase = "ready"
    /\ \E out \in Remote(_users, UserOutcomes), user_id \in UserIds :
          LET r == user_from_id(_users, verify, out, user_id) IN
          /\ _users' = r.cache
          /\ lastOp' = Op("user_from_id", <<user_id>>)
          /\ lastStatus' = r.status
          /\ lastRet' = r.ret
          /\ lastCalls' = r.calls
          /\ usersLoaded' = (usersLoaded \/ Loaded(r))
    /\ UNCHANGED <<phase, token, verify, _channels, thrVars>>

ChannelFromId ==
    /\ phase = "ready"
    /\ \E out \in Remote(_channels, ChannelOutcomes), channel_id \in ChannelIds :
          LET r == channel_from_id(_channels, verify, out, channel_id) IN
          /\ _channels' = r.cache
          /\ lastOp' = Op("channel_from_id", <<channel_id>>)
          /\ lastStatus' = r.status
          /\ lastRet' = r.ret
          /\ lastCalls' = r.calls
    /\ UNCHANGED <<phase, token, verify, _users, usersLoaded, thrVars>>

ReloadChannels ==
    /\ phase = "ready"
    /\ _channels' = reload_channels(_channels)
    /\ lastOp' = Op("reload_channels", <<>>)
    /\ lastStatus' = "ok"
    /\ lastRet' = RetNone
    /\ lastCalls' = <<>>
    /\ UNCHANGED <<phase, token, verify, _users, usersLoaded, thrVars>>

Next ==
    \/ Construct
    \/ Channels
    \/ Users
    \/ AuthTest
    \/ RtmStart
    \/ ChatPostMessage
    \/ CallApi
    \/ PostApi
    \/ ChannelFromName
    \/ UserFromId
    \/ ChannelFromId
    \/ ReloadChannels

Spec == Init /\ [][Next]_vars

(* ---------------------------------------------------------------------- *)
(* Two threads sharing one client.  channels() is three attribute          *)
(* accesses: the test at line 101, the store at line 102 (after the        *)
(* blocking request) and the read at line 103; the other thread may run    *)
(* between any two of them.                                                 *)
(* ---------------------------------------------------------------------- *)
InitThreads ==
    /\ phase = "ready"
    /\ token = "xoxb-arg"
    /\ verify \in BOOLEAN
    /\ _channels = ListVal(<<>>)
    /\ _users = ListVal(<<>>)
    /\ lastOp = Op("__init__", <<"xoxb-arg", EnvUnset, FALSE, verify, TRUE>>)
    /\ lastStatus = "ok"
    /\ lastRet = RetNone
    /\ lastCalls = <<>>
    /\ usersLoaded = FALSE
    /\ pc = [t \in Threads |-> "idle"]
    /\ fetched = [t \in Threads |-> <<>>]
    /\ didFetch = [t \in Threads |-> FALSE]
    /\ tret = [t \in Threads |-> NoResult]
    /\ acted = {}
    /\ dupFetch = FALSE

Other(t) == CHOOSE o \in Threads : o # t

\* line 101: if not self._channels
ThreadCheck(t) ==
    /\ pc[t] = "idle"
    /\ pc' = [pc EXCEPT ![t] = IF Truthy(_channels) THEN "return" ELSE "fetch"]
    /\ didFetch' = [didFetch EXCEPT ![t] = FALSE]
    /\ acted' = acted \cup {t}
    /\ UNCHANGED <<phase, token, verify, _channels, _users, seqVars, fetched, tret,
                   dupFetch>>

\* line 102, right-hand side: self._call_api('channels.list')['channels']
ThreadFetch(t) ==
    /\ pc[t] = "fetch"
    /\ \E out \in ChannelOutcomes :
          LET r == _call_api("channels.list", verify, out) IN
          IF r.status = "ok" /\ r.resp.has
          THEN /\ pc' = [pc EXCEPT ![t] = "store"]
               /\ fetched' = [fetched EXCEPT ![t] = r.resp.items]
               /\ tret' = tret
          ELSE /\ pc' = [pc EXCEPT ![t] = "idle"]
               /\ fetched' = fetched
               /\ tret' = [tret EXCEPT ![t] =
                              [status |-> IF r.status = "ok" THEN "KeyError" ELSE r.status,
                               ret |-> RetNone]]
    /\ didFetch' = [didFetch EXCEPT ![t] = TRUE]
    /\ dupFetch' = (dupFetch \/ pc[Other(t)] = "store")
    /\ UNCHANGED <<phase, token, verify, _channels, _users, seqVars, acted>>

\* line 102, the assignment to self._channels
ThreadStore(t) ==
    /\ pc[t] = "store"
    /\ _channels' = ListVal(fetched[t])
    /\ fetched' = [fetched EXCEPT ![t] = <<>>]
    /\ pc' = [pc EXCEPT ![t] = "return"]
    /\ UNCHANGED <<phase, token, verify, _users, seqVars, didFetch, tret, acted,
                   dupFetch>>

\* line 103: return self._channels
ThreadReturn(t) ==
    /\ pc[t] = "return"
    /\ tret' = [tret EXCEPT ![t] = [status |-> "ok", ret |-> RetOf(_channels)]]
    /\ pc' = [pc EXCEPT ![t] = "idle"]
    /\ UNCHANGED <<phase, token, verify, _channels, _users, seqVars, fetched, didFetch,
                   acted, dupFetch>>

\* line 166, called by a thread that is not inside channels()
ThreadReload(t) ==
    /\ pc[t] = "idle"
    /\ _channels' = reload_channels(_channels)
    /\ acted' = acted \cup {t}
    /\ UNCHANGED <<phase, token, verify, _users, seqVars, pc, fetched, didFetch, tret,
                   dupFetch>>

NextThreads ==
    \E t \in Threads :
        \/ ThreadCheck(t)
        \/ ThreadFetch(t)
        \/ ThreadStore(t)
        \/ ThreadReturn(t)
        \/ ThreadReload(t)

SpecThreads == InitThreads /\ [][NextThreads]_vars

(* ---------------------------------------------------------------------- *)
(* Properties                                                              *)
(* ---------------------------------------------------------------------- *)
Count(method) == Cardinality({ i \in DOMAIN lastCalls : lastCalls[i].method = method })

IsCall(c, method, http) == c.method = method /\ c.http = http

\* The dispatch layer raised for this exchange.
DispatchFailed(c) == c.out.transport \/ (verify /\ ~c.out.ok)
DispatchError(c) == IF c.out.transport THEN "TransportError" ELSE "APIError"

\* The step is a run of the named operation (every operation records itself in
\* lastOp).
Ran(name) == lastOp'.name = name
ChannelsAccess == Ran("channels") \/ Ran("channel_from_name") \/ Ran("channel_from_id")
UsersAccess == Ran("users") \/ Ran("user_from_id")

NoMatch(items, f, key) == \A i \in DOMAIN items : Field(items[i], f) # key

IsFirstMatch(items, f, key, e) ==
    \E i \in DOMAIN items :
        /\ Field(items[i], f) = key
        /\ items[i] = e
        /\ \A j \in 1..(i - 1) : Field(items[j], f) # key

\* C1: after a channels() call that fetched successfully, an immediately
\* following channels() call issues no network call and returns the same
\* stored sequence, whatever list the fetch returned.
C1_SecondChannelsCallDoesNotFetch ==
    [][ (lastOp.name = "channels" /\ lastStatus = "ok" /\ Len(lastCalls) = 1 /\ Ran("channels"))
        => (lastCalls' = <<>> /\ lastStatus' = "ok" /\ lastRet' = lastRet) ]_vars

\* C2: construction with auth_test set, during which an auth.test response
\* came back with a false success flag, fails with AuthenticationError and
\* produces no instance, whatever verify is.
C2_AuthFailureRaisesAuthenticationError ==
    (/\ lastOp.name = "__init__"
     /\ lastOp.args[3]
     /\ \E i \in DOMAIN lastCalls :
           /\ lastCalls[i].method = "auth.test"
           /\ ~lastCalls[i].out.transport
           /\ ~lastCalls[i].out.ok)
    => (phase = "failed" /\ lastStatus = "AuthenticationError")

\* C3: for every token argument and environment value, a constructed client
\* holds a non-empty token; construction without a token argument and with
\* the environment variable unset fails with ConfigurationError; and no later
\* operation changes the token.
C3_ConstructedTokenNonEmpty ==
    /\ [](phase = "ready" => (token # "" /\ token # NoToken))
    /\ []((/\ lastOp.name = "__init__"
           /\ ~TokenTruthy(lastOp.args[1])
           /\ lastOp.args[2] = EnvUnset)
          => (phase = "failed" /\ lastStatus = "ConfigurationError"))
    /\ [][phase = "ready" => token' = token]_vars

\* C4 as stated: construction issues at most three network calls, at most one
\* of them an auth check.
C4_AtMostThreeCalls ==
    lastOp.name = "__init__" => (Len(lastCalls) <= 3 /\ Count("auth.test") <= 1)

\* C4: construction issues at most four network calls: at most two auth.test
\* calls (one GET, then one POST), then at most one channels.list fetch, then
\* at most one users.list fetch.
C4_AtMostFourCalls ==
    lastOp.name = "__init__" =>
        /\ Len(lastCalls) <= 4
        /\ Count("auth.test") <= 2
        /\ Count("channels.list") <= 1
        /\ Count("users.list") <= 1
        /\ Count("auth.test") + Count("channels.list") + Count("users.list") = Len(lastCalls)
        /\ \A i, j \in DOMAIN lastCalls :
              (lastCalls[i].method = "auth.test" /\ lastCalls[j].method # "auth.test") => i < j
        /\ \A i, j \in DOMAIN lastCalls :
              (lastCalls[i].method = "channels.list" /\ lastCalls[j].method = "users.list")
              => i < j

C4_FourCallsWitness ==
    /\ lastOp.name = "__init__"
    /\ phase = "ready"
    /\ Len(lastCalls) = 4
    /\ Count("auth.test") = 2

\* C5 as stated: whenever the GET call of auth_test() gets a response,
\* auth_test() issues exactly two auth.test calls, GET then POST, and what it
\* returns is the POST response.
C5_AlwaysGetAndPost ==
    (lastOp.name = "auth_test" /\ ~lastCalls[1].out.transport) =>
        /\ Len(lastCalls) = 2
        /\ IsCall(lastCalls[1], "auth.test", "get")
        /\ IsCall(lastCalls[2], "auth.test", "post")
        /\ lastStatus = "ok" => lastRet = RetResp(lastCalls[2].out)

\* C5: auth_test() issues the GET auth.test call first.  If that call fails in
\* the dispatch layer (transport error, or verify set and a false success
\* flag) the error propagates and no POST is issued; otherwise the POST
\* auth.test call follows and auth_test() ends as that call does: with its
\* error, or returning its response.
C5_GetThenPostUnlessGetRaises ==
    lastOp.name = "auth_test" =>
        /\ Len(lastCalls) >= 1
        /\ IsCall(lastCalls[1], "auth.test", "get")
        /\ IF DispatchFailed(lastCalls[1])
           THEN /\ Len(lastCalls) = 1
                /\ lastStatus = DispatchError(lastCalls[1])
           ELSE /\ Len(lastCalls) = 2
                /\ IsCall(lastCalls[2], "auth.test", "post")
                /\ IF DispatchFailed(lastCalls[2])
                   THEN lastStatus = DispatchError(lastCalls[2])
                   ELSE lastStatus = "ok" /\ lastRet = RetResp(lastCalls[2].out)

C5_PostResponseReturnedWitness ==
    /\ lastOp.name = "auth_test"
    /\ lastStatus = "ok"
    /\ Len(lastCalls) = 2
    /\ ~lastCalls[1].out.ok
    /\ lastCalls[2].out.ok
    /\ lastRet = RetResp(lastCalls[2].out)

\* C6: a direct _call_api / _post_api issues one request; it raises APIError
\* exactly when the request got a response, verify is set and the response's
\* success flag is false; any other response is returned unchanged.
C6_APIErrorIffVerifyAndNotOk ==
    lastOp.name \in {"_call_api", "_post_api"} =>
        /\ Len(lastCalls) = 1
        /\ lastCalls[1].http = (IF lastOp.name = "_call_api" THEN "get" ELSE "post")
        /\ lastStatus = "APIError"
              <=> (~lastCalls[1].out.transport /\ verify /\ ~lastCalls[1].out.ok)
        /\ (~lastCalls[1].out.transport /\ lastStatus # "APIError")
              => (lastStatus = "ok" /\ lastRet = RetResp(lastCalls[1].out))

C6_UnverifiedFailureReturnedWitness ==
    /\ lastOp.name = "_call_api"
    /\ ~verify
    /\ ~lastCalls[1].out.transport
    /\ ~lastCalls[1].out.ok
    /\ lastStatus = "ok"
    /\ lastRet = RetResp(lastCalls[1].out)

\* C7: reload_channels() issues no network call, sets only the channel cache
\* and leaves the user cache, token and verify alone; a successful channels()
\* right after it issues exactly one channels.list fetch and stores exactly
\* the fetched list; and once a users.list fetch has succeeded, no operation
\* issues another users.list fetch.
C7_ReloadChannelsOnlyAndUsersNeverRefetched ==
    [][ /\ Ran("reload_channels") =>
              /\ lastCalls' = <<>>
              /\ _channels' = NoneVal
              /\ _users' = _users
              /\ token' = token
              /\ verify' = verify
        /\ (lastOp.name = "reload_channels" /\ Ran("channels") /\ lastStatus' = "ok") =>
              /\ Len(lastCalls') = 1
              /\ IsCall(lastCalls'[1], "channels.list", "get")
              /\ _channels' = ListVal(lastCalls'[1].out.items)
        /\ usersLoaded =>
              \A i \in DOMAIN lastCalls' : lastCalls'[i].method # "users.list"
      ]_vars

FailedFetchKeepsCaches(a, method) ==
    (a /\ Len(lastCalls') = 1 /\ DispatchFailed(lastCalls'[1])) =>
        /\ lastCalls'[1].method = method
        /\ lastStatus' = DispatchError(lastCalls'[1])
        /\ lastRet' = RetNone
        /\ _channels' = _channels
        /\ _users' = _users

\* C8: when the fetch made by a channels or users access fails in the
\* dispatch layer (APIError or transport error), the access raises that
\* error, both caches are left as they were (the accessed one still empty),
\* and an access to a collection whose cache is empty always issues a fetch.
C8_FailedFetchLeavesCacheEmpty ==
    [][ /\ FailedFetchKeepsCaches(ChannelsAccess, "channels.list")
        /\ FailedFetchKeepsCaches(UsersAccess, "users.list")
        /\ (ChannelsAccess /\ Len(lastCalls') = 1 /\ DispatchFailed(lastCalls'[1]))
              => ~Truthy(_channels')
        /\ (UsersAccess /\ Len(lastCalls') = 1 /\ DispatchFailed(lastCalls'[1]))
              => ~Truthy(_users')
        /\ (ChannelsAccess /\ ~Truthy(_channels))
              => (Len(lastCalls') = 1 /\ IsCall(lastCalls'[1], "channels.list", "get"))
        /\ (UsersAccess /\ ~Truthy(_users))
              => (Len(lastCalls') = 1 /\ IsCall(lastCalls'[1], "users.list", "get"))
      ]_vars

C8_FailedChannelsFetchWitness ==
    /\ lastOp.name = "channels"
    /\ lastStatus = "APIError"
    /\ Len(lastCalls) = 1
    /\ _channels = NoneVal
    /\ Truthy(_users)

\* A lookup step on a collection: before / after are the cache before and
\* after the step, f the field compared with the key lastOp'.args[1].
LookupCorrect(before, after, f) ==
    /\ lastStatus' \in {"ok", "NotFoundError"} \cup FetchErrors
    /\ Truthy(before) => (after = before /\ lastCalls' = <<>>
                          /\ lastStatus' \notin FetchErrors)
    /\ ~Truthy(before) => Len(lastCalls') = 1
    /\ lastStatus' \in FetchErrors => after = before
    /\ lastStatus' \notin FetchErrors =>
          /\ ~after.none
          /\ ~Truthy(before) => after = ListVal(lastCalls'[1].out.items)
          /\ lastStatus' = "NotFoundError" <=> NoMatch(after.items, f, lastOp'.args[1])
          /\ lastStatus' = "NotFoundError" => lastRet' = RetNone
          /\ lastStatus' = "ok" =>
                /\ lastRet'.kind = "elem"
                /\ IsFirstMatch(after.items, f, lastOp'.args[1], lastRet'.val[1])

\* C9: channel_from_name, channel_from_id and user_from_id scan the cached
\* collection (fetched first when the cache is empty); they return the first
\* element in collection order whose field equals the key, raise
\* NotFoundError exactly when the collection holds no such element, and leave
\* a populated collection as it was.
C9_LookupReturnsFirstMatch ==
    [][ /\ Ran("channel_from_name") => LookupCorrect(_channels, _channels', "name")
        /\ Ran("channel_from_id") => LookupCorrect(_channels, _channels', "id")
        /\ Ran("user_from_id") => LookupCorrect(_users, _users', "id")
        /\ (Ran("channel_from_name") \/ Ran("channel_from_id")) => _users' = _users
        /\ Ran("user_from_id") => _channels' = _channels
      ]_vars

C9_FirstOfTwoMatchesWitness ==
    /\ lastOp.name = "channel_from_id"
    /\ lastStatus = "ok"
    /\ Len(_channels.items) = 2
    /\ _channels.items[1] # _channels.items[2]
    /\ _channels.items[1].id = lastOp.args[1]
    /\ _channels.items[2].id = lastOp.args[1]
    /\ lastRet = RetElem(_channels.items[1])

\* C10: with two threads on one client, a channels() call that returned hands
\* back a list or None; it hands back None only if both threads have used the
\* client, and a fetch is issued while another fetch is pending only if both
\* threads have used the client: a client used by one thread always gets a
\* sequence from channels().
C10_OnlyConcurrentUseReturnsNone ==
    /\ \A t \in Threads :
          tret[t].status = "ok" =>
              /\ tret[t].ret.kind \in {"list", "none"}
              /\ tret[t].ret.kind = "none" => acted = Threads
    /\ dupFetch => acted = Threads

C10_DuplicateFetchAndNoneWitness ==
    /\ dupFetch
    /\ \E t \in Threads : tret[t].status = "ok" /\ tret[t].ret.kind = "none"
====
